---- MODULE Spec2Model ----
(***************************************************************************)
(* Model of the conversion handlers of endless-pdf-conversions.            *)
(*                                                                         *)
(*   img     POST /pdf/image-to-pdf        src/index.js 45-90              *)
(*   pooled  POST /pdf/pdf-to-image        src/index.js 93-178  (pdf2pic)  *)
(*   v1      POST /pdf/v1/pdf-to-image     src/index.js 282-375 (pdf-to-img)*)
(*   scan    POST /pdf/pdf-to-image        src/unnamed/part_001 92-190     *)
(*   v2      POST /pdf/v2/pdf-to-image/    src/index.js 377-458 (PDFium)   *)
(*                                                                         *)
(* One request is followed from the moment multer has staged its upload    *)
(* until the handler has returned and every job it submitted has settled.  *)
(* A handler's synchronous stretch between two awaits is one action; the   *)
(* settlement of a page job is an action of its own, so jobs settle in     *)
(* every order the event loop can produce.                                 *)
(***************************************************************************)
EXTENDS Integers, Sequences, FiniteSets, TLC

VARIABLES
    handler,    \* which route serves the request
    uploaded,   \* req.file / req.files is present
    n,          \* number of uploaded images, or pages of the uploaded document
    cpus,       \* os.cpus().length (read by v2 only)
    pc,         \* position of the handler
    filePath,   \* filePath / uploadedFilePath: TRUE once assigned
    job,        \* state of each page job submitted to the p-limit pool
    values,     \* the array Promise.all collects (0 = slot not yet filled)
    pdfPages,   \* pages added to pdfDoc (img)
    pageNum,    \* pageNum of the sequential render loop (v1, scan)
    imageFiles, \* imageFiles (v1, scan)
    archive,    \* the archiver: piped to res, entries appended and not yet written
    res,        \* the HTTP response
    disk,       \* paths that exist on disk
    err,        \* the error the catch block received
    format,     \* req.body.format ("" = not sent)
    dpi,        \* req.body.dpi, as characters
    scale,      \* req.body.scale, as characters
    options,    \* format and resolution the handler derived from the fields
    jsonBody,   \* keys of the object given to res.json ({} = none)
    imageDims,  \* width and height of each uploaded image (img)
    pageBoxes,  \* size and drawImage box of each page of pdfDoc (img)
    stamped,    \* addEndlessForgeMetadata(pdfDoc) has resolved (img)
    doc,        \* the pdfium document of v2: "none", "loaded" or "destroyed"
    clock,      \* Date.now(), in milliseconds since the request was received
    peer,       \* a second document request: position and the Date.now() naming its outputDir
    mimetype,   \* file.mimetype of each uploaded image, as characters (img)
    encoded,    \* the embed path each image took: "", "png" or "jpeg" (img)
    disconnected, \* the client has closed the connection of the request
    pdfium,     \* the module-level PDFium handle: "null" or "ready"
    statusCode, \* res.statusCode, the property res.status(s) assigns
    overtaken   \* history: some job settled before a job of lower index

vars == <<handler, uploaded, n, cpus, pc, filePath, job, values, pdfPages,
          pageNum, imageFiles, archive, res, disk, err, format,
          dpi,
          scale,
          options,
          jsonBody,
          imageDims,
          pageBoxes,
          stamped,
          doc,
          clock,
          peer,
          mimetype,
          encoded,
          disconnected,
          pdfium,
          statusCode,
          overtaken>>

----------------------------------------------------------------------------
(* Bounds of the model *)

MaxImages == 7
MaxPages == 4
MaxCpus == 4
MaxClock == 1
MaxKinds == 3

(* Program constants *)

ImagesLimit == 5
PagesLimit == 2

Handlers == {"img", "pooled", "v1", "scan", "v2"}
DirHandlers == {"pooled", "v1", "scan"}
DocHandlers == {"pooled", "v1", "scan", "v2"}

----------------------------------------------------------------------------
(* Disk paths *)

UploadPath(i) == [kind |-> "upload", k |-> i]
OutputDir == [kind |-> "dir", k |-> 0]
OutFile(k) == [kind |-> "out", k |-> k]

Uploads(cnt) == {UploadPath(i) : i \in 1..cnt}

\* fs.existsSync(p) && fs.unlinkSync(p), for each path given
cleanupFilesFirstOnly(d, paths) ==
    IF paths = {} THEN d ELSE d \ {CHOOSE p \in paths : \A q \in paths : p.k <= q.k}

cleanupFiles(d, paths) == d \ paths

\* if (!fs.existsSync(outputDir)) fs.mkdirSync(outputDir, { recursive: true })
mkdirOutput(d) == d \cup {OutputDir}

\* if (fs.existsSync(outputDir)) fs.rmSync(outputDir, { recursive: true, force: true })
rmOutputNonRecursive(d) ==
    IF \E p \in d : p.kind = "out" THEN d ELSE d \ {OutputDir}

rmOutput(d) == {p \in d : p.kind \notin {"dir", "out"}}

----------------------------------------------------------------------------
(* The response *)

NoResponse == [status |-> 0, headersSent |-> FALSE, ctype |-> "none",
               body |-> <<>>, ended |-> FALSE]

\* res.status(s).json(...): throws ERR_HTTP_HEADERS_SENT once headers are out,
\* leaving what was already written as it is
Json(r, s) ==
    IF r.headersSent THEN r
    ELSE [status |-> s, headersSent |-> TRUE, ctype |-> "json",
          body |-> <<>>, ended |-> TRUE]

\* res.setHeader("Content-Type", t); res.send(buffer)
Send(r, t, entries) ==
    IF r.headersSent THEN r
    ELSE [status |-> 200, headersSent |-> TRUE, ctype |-> t,
          body |-> entries, ended |-> TRUE]

\* res.statusCode of a fresh response
DefaultStatusCode == 200

\* The object res.json(obj) puts on the wire, unless it threw
JsonBody(r, cur, keys) == IF r.headersSent THEN cur ELSE keys

\* { error: "Upload images" }, { error: "Upload a PDF" }
BadRequestBody == {"error"}

\* { error: err.message }: src/index.js 88 and 170
ShortErrorBody == {"error"}

\* { error: "Conversion failed...", details: err.message }: src/index.js 360-363, 453
DetailedErrorBody == {"error", "details"}

Entry(name, src) == [name |-> name, src |-> src]

NoArchive == [piped |-> FALSE, pending |-> <<>>]

NoError == [kind |-> "none", index |-> 0]
Error(kind, i) == [kind |-> kind, index |-> i]

----------------------------------------------------------------------------
(* The p-limit pool and Promise.all *)

Min(S) == CHOOSE x \in S : \A y \in S : x <= y
Max(a, b) == IF a >= b THEN a ELSE b

Running(j) == {i \in DOMAIN j : j[i] \in {"running", "doomed"}}
Queued(j) == {i \in DOMAIN j : j[i] = "queued"}
Settled(j) == {i \in DOMAIN j : j[i] \in {"ok", "failed"}}
AllOk(j) == \A i \in DOMAIN j : j[i] = "ok"

\* const concurrency = Math.max(1, (os.cpus().length || 2) - 1)
Concurrency(c) == Max(1, (IF c = 0 THEN 2 ELSE c) - 1)

Limit(h, c) ==
    CASE h = "img" -> ImagesLimit
      [] h = "pooled" -> PagesLimit
      [] h = "v2" -> Concurrency(c)
      [] OTHER -> 1

\* tasks = items.map(x => limit(async () => ...)): p-limit starts the first
\* `lim` functions and queues the rest
DispatchAll(cnt, lim) == [i \in 1..cnt |-> "running"]

Dispatch(cnt, lim) == [i \in 1..cnt |-> IF i <= lim THEN "running" ELSE "queued"]

\* p-limit's next(): a settled job frees its slot and the head of the queue
\* starts. An image job starts by reading its file: when the file is gone the
\* job can only fail.
\* A pool that takes the queued job submitted last
AdmitNewest(j, lim, d, h) ==
    IF Queued(j) # {} /\ Cardinality(Running(j)) < lim
    THEN LET k == CHOOSE x \in Queued(j) : \A y \in Queued(j) : x >= y
         IN [j EXCEPT ![k] = IF h = "img" /\ UploadPath(k) \notin d
                             THEN "doomed" ELSE "running"]
    ELSE j

Admit(j, lim, d, h) ==
    IF Queued(j) # {} /\ Cardinality(Running(j)) < lim
    THEN LET k == Min(Queued(j))
         IN [j EXCEPT ![k] = IF h = "img" /\ UploadPath(k) \notin d
                             THEN "doomed" ELSE "running"]
    ELSE j

\* Promise.all stores the value of the i-th promise in slot i
CollectInCompletionOrder(vals, i, v) ==
    [vals EXCEPT ![Min({k \in DOMAIN vals : vals[k] = 0})] = v]

CollectResult(vals, i, v) == [vals EXCEPT ![i] = v]

----------------------------------------------------------------------------
(* Request fields: format, dpi, scale *)

Formats == {"", "png", "jpeg", "JPEG", "jpg", "gif"}

NumFields == {<<>>, <<"1", "5", "0">>, <<"0">>, <<"-", "5">>, <<"a", "b", "c">>,
              <<"2", ".", "5">>, <<"3", "x">>}

PooledDefaultDpi == 150
V1DefaultDpi == 2
V1PointsPerInch == 72
ScanDefaultDpi == 150
V2DefaultScale == 1

\* String.prototype.toLowerCase, on the values of Formats
toLowerCase(s) == IF s = "JPEG" THEN "jpeg" ELSE s

\* (req.body.format || "png").toLowerCase()
FormatField(f) == toLowerCase(IF f = "" THEN "png" ELSE f)

\* Numbers are fractions num/den; nan is JavaScript's NaN
NaN == [nan |-> TRUE, num |-> 0, den |-> 1]
Num(a, b) == [nan |-> FALSE, num |-> a, den |-> b]

IsDigit(c) == c \in {"0", "1", "2", "3", "4", "5", "6", "7", "8", "9"}
DigitValue(c) ==
    CASE c = "0" -> 0 [] c = "1" -> 1 [] c = "2" -> 2 [] c = "3" -> 3
      [] c = "4" -> 4 [] c = "5" -> 5 [] c = "6" -> 6 [] c = "7" -> 7
      [] c = "8" -> 8 [] c = "9" -> 9

RECURSIVE DigitRun(_)
\* The leading digits of a character sequence
DigitRun(str) ==
    IF str # <<>> /\ IsDigit(Head(str)) THEN <<Head(str)>> \o DigitRun(Tail(str))
    ELSE <<>>

RECURSIVE DigitsValue(_)
DigitsValue(ds) ==
    IF ds = <<>> THEN 0
    ELSE 10 * DigitsValue(SubSeq(ds, 1, Len(ds) - 1)) + DigitValue(ds[Len(ds)])

RECURSIVE Pow10(_)
Pow10(k) == IF k = 0 THEN 1 ELSE 10 * Pow10(k - 1)

Signed(str) == str # <<>> /\ Head(str) \in {"-", "+"}
Unsigned(str) == IF Signed(str) THEN Tail(str) ELSE str
SignOf(str) == IF str # <<>> /\ Head(str) = "-" THEN -1 ELSE 1

\* parseInt(str): an optional sign and the digits that follow it; NaN
\* without a digit (undefined and "" included)
ParseInt(str) ==
    LET ds == DigitRun(Unsigned(str))
    IN IF ds = <<>> THEN NaN ELSE Num(SignOf(str) * DigitsValue(ds), 1)

\* parseFloat(str): as parseInt, with an optional fraction after the digits
ParseFloat(str) ==
    LET body == Unsigned(str)
        ip == DigitRun(body)
        rest == SubSeq(body, Len(ip) + 1, Len(body))
        fp == IF rest # <<>> /\ Head(rest) = "." THEN DigitRun(Tail(rest)) ELSE <<>>
    IN IF ip = <<>> /\ fp = <<>> THEN NaN
       ELSE Num(SignOf(str) * (DigitsValue(ip) * Pow10(Len(fp)) + DigitsValue(fp)),
                Pow10(Len(fp)))

\* x || d : NaN and 0 are falsy
OrDefault(x, d) == IF x.nan \/ x.num = 0 THEN Num(d, 1) ELSE x

NoOptions == [encoder |-> "", ext |-> "", mime |-> "", prefix |-> "",
              resolution |-> NaN]

\* src/index.js 110-122
PooledOptions(f, d) ==
    LET fmt == FormatField(f)
    IN [encoder |-> IF fmt = "jpg" THEN "jpeg" ELSE fmt,
        ext |-> fmt,
        mime |-> "image/" \o fmt,
        prefix |-> "page_",
        resolution |-> OrDefault(ParseInt(d), PooledDefaultDpi)]

\* src/index.js 295-300, 312-320: the renderer yields PNG buffers, re-encoded
\* only when safeFormat is "jpg"
V1Options(f, d) ==
    LET fmt == FormatField(f)
        safeFormat == IF fmt = "jpeg" THEN "jpg" ELSE fmt
        dpiValue == OrDefault(ParseInt(d), V1DefaultDpi)
    IN [encoder |-> IF safeFormat = "jpg" THEN "jpeg" ELSE "png",
        ext |-> safeFormat,
        mime |-> "image/" \o safeFormat,
        prefix |-> "page-",
        resolution |-> Num(dpiValue.num, dpiValue.den * V1PointsPerInch)]

\* src/unnamed/part_001 107-118, 150-169
ScanOptions(f, d) ==
    LET fmt == FormatField(f)
        safeFormat == IF fmt = "jpeg" THEN "jpg" ELSE fmt
    IN [encoder |-> safeFormat,
        ext |-> safeFormat,
        mime |-> "image/" \o safeFormat,
        prefix |-> "page_",
        resolution |-> OrDefault(ParseInt(d), ScanDefaultDpi)]

\* src/index.js 382-386, 427-434
V2Options(f, sc, d) ==
    LET outFormat == FormatField(f)
        ext == IF outFormat = "jpeg" THEN "jpg" ELSE outFormat
    IN [encoder |-> outFormat,
        ext |-> ext,
        mime |-> "image/" \o ext,
        prefix |-> "page_",
        resolution |-> OrDefault(ParseFloat(IF sc # <<>> THEN sc ELSE d),
                                 V2DefaultScale)]

\* The name an entry gets in the archive
FileName(e) == options.prefix \o ToString(e.name) \o "." \o options.ext

----------------------------------------------------------------------------
\* The handler has not run yet; multer has staged the uploads
\* file.mimetype as multer reports it
ImagePng == <<"i", "m", "a", "g", "e", "/", "p", "n", "g">>
ImageJpeg == <<"i", "m", "a", "g", "e", "/", "j", "p", "e", "g">>
ImageGif == <<"i", "m", "a", "g", "e", "/", "g", "i", "f">>

MimeTypes == {ImagePng, ImageJpeg, ImageGif}

\* String.prototype.includes
includes(str, sub) ==
    \E i \in 1..(Len(str) - Len(sub) + 1) : SubSeq(str, i, i + Len(sub) - 1) = sub

\* if (file.mimetype.includes("png")) ... embedPng else ... embedJpg
EmbedPath(m) == IF includes(m, <<"p", "n", "g">>) THEN "png" ELSE "jpeg"

\* Uploads that are png and jpeg in turn
PngThenJpeg(cnt) == [i \in 1..cnt |-> IF i % 2 = 1 THEN ImagePng ELSE ImageJpeg]

\* Uploaded images: alternating portrait 100x200 and square 50x50, or each
\* one wider and lower than the one before
SizeTables == {"alternating", "graded"}

PortraitWidth == 100
PortraitHeight == 200
SquareSide == 50
GradeStep == 10

ImageDim(t, k) ==
    IF t = "alternating"
    THEN IF k % 2 = 1 THEN [width |-> PortraitWidth, height |-> PortraitHeight]
         ELSE [width |-> SquareSide, height |-> SquareSide]
    ELSE [width |-> GradeStep * k, height |-> PortraitHeight - GradeStep * k]

Dims(t, cnt) == [k \in 1..cnt |-> ImageDim(t, k)]

\* A page as wide and high as the first image, every image stretched over it
addPageFirstSize(image, first) ==
    [size |-> <<first.width, first.height>>,
     draw |-> [x |-> 0, y |-> 0, width |-> first.width, height |-> first.height]]

\* const page = pdfDoc.addPage([image.width, image.height]);
\* page.drawImage(image, { x: 0, y: 0, width: image.width, height: image.height })
addPage(image, first) ==
    [size |-> <<image.width, image.height>>,
     draw |-> [x |-> 0, y |-> 0, width |-> image.width, height |-> image.height]]

\* Date.now() when the handler names its outputDir (src/index.js 95, 283)
RequestTime == 0

NoPeer == [pc |-> "idle", id |-> 0]

Fresh ==
    /\ pc = "start"
    /\ filePath = FALSE
    /\ job = <<>>
    /\ values = <<>>
    /\ pdfPages = <<>>
    /\ pageNum = 1
    /\ imageFiles = <<>>
    /\ archive = NoArchive
    /\ res = NoResponse
    /\ disk = IF ~uploaded THEN {}
              ELSE IF handler = "img" THEN Uploads(n) ELSE Uploads(1)
    /\ err = NoError
    /\ options = NoOptions
    /\ jsonBody = {}
    /\ statusCode = DefaultStatusCode
    /\ disconnected = FALSE
    /\ encoded = IF handler = "img" THEN [i \in 1..n |-> ""] ELSE <<>>
    /\ clock = RequestTime
    /\ peer = NoPeer
    /\ doc = "none"
    /\ pageBoxes = <<>>
    /\ stamped = FALSE
    /\ overtaken = FALSE

Init ==
    /\ handler \in Handlers
    /\ uploaded \in BOOLEAN
    /\ n \in 0..MaxImages
    /\ cpus \in 0..MaxCpus
    /\ handler = "img" => uploaded = (n > 0)
    /\ handler # "img" => n <= MaxPages /\ (~uploaded => n = 0)
    /\ handler # "v2" => cpus = 0
    /\ format \in Formats
    /\ handler = "img" => format = ""
    /\ imageDims \in IF handler = "img" THEN {Dims(t, n) : t \in SizeTables} ELSE {<<>>}
    /\ mimetype = IF handler = "img" THEN PngThenJpeg(n) ELSE <<>>
    /\ pdfium = "ready"
    /\ dpi = <<>>
    /\ scale = <<>>
    /\ Fresh

\* A document request of a handler that names an output directory, met by a
\* second request of the same handler
InitTwo ==
    /\ Init
    /\ handler \in DirHandlers
    /\ format = ""

\* A document request with every combination of the format, dpi and scale
\* fields
InitFields ==
    /\ handler \in DocHandlers
    /\ uploaded = TRUE
    /\ n = 1
    /\ cpus = 0
    /\ format \in Formats
    /\ dpi \in NumFields
    /\ scale \in NumFields
    /\ handler # "v2" => scale = <<>>
    /\ imageDims = <<>>
    /\ mimetype = <<>>
    /\ pdfium = "ready"
    /\ Fresh

\* A document request of a handler that renders its pages in a pool, whose
\* client may go away
InitCancel ==
    /\ Init
    /\ handler \in {"pooled", "v2"}
    /\ format = ""

\* An images request with every combination of declared image kinds
InitKinds ==
    /\ handler = "img"
    /\ uploaded = TRUE
    /\ n \in 1..MaxKinds
    /\ cpus = 0
    /\ format = ""
    /\ dpi = <<>>
    /\ scale = <<>>
    /\ imageDims = Dims("alternating", n)
    /\ mimetype \in [1..n -> MimeTypes]
    /\ pdfium = "ready"
    /\ Fresh

\* A /pdf/v2/pdf-to-image/ request received once the server listens: the
\* module has run `let pdfium = null`, started the init function and called
\* app.listen without awaiting it
InitStartup ==
    /\ handler = "v2"
    /\ uploaded \in BOOLEAN
    /\ n \in 0..MaxPages
    /\ ~uploaded => n = 0
    /\ cpus \in 0..MaxCpus
    /\ format = ""
    /\ dpi = <<>>
    /\ scale = <<>>
    /\ imageDims = <<>>
    /\ mimetype = <<>>
    /\ pdfium = "null"
    /\ Fresh

----------------------------------------------------------------------------
(* Page jobs: the functions handed to limit(...) *)

\* page.number of @hyzyla/pdfium counts from 0
PageNumber(idx) == idx - 1

\* The catch block is entered in the microtasks of the rejection, before the
\* event loop delivers another completion.
EventLoopFree == pc # "catch"

\* Job i settles while a job submitted before it has not
Overtakes(i) == \E k \in DOMAIN job : k < i /\ job[k] \notin {"ok", "failed"}

\* Job i resolves. In v2 the job itself appends its image to the archive, or
\* sends it when the document has one page (src/index.js 431-437).
JobOk(i) ==
    /\ EventLoopFree
    /\ i \in DOMAIN job
    /\ job[i] = "running"
    /\ LET j1 == [job EXCEPT ![i] = "ok"]
           j2 == Admit(j1, Limit(handler, cpus), disk, handler)
       IN /\ job' = j2
          /\ pc' = IF pc = "await" /\ AllOk(j2) THEN "collected" ELSE pc
    /\ values' = CollectResult(values, i, i)
    /\ encoded' = IF handler = "img"
                  THEN [encoded EXCEPT ![i] = EmbedPath(mimetype[i])]
                  ELSE encoded
    /\ overtaken' = (overtaken \/ Overtakes(i))
    /\ archive' = IF handler = "v2" /\ n > 1
                  THEN [archive EXCEPT !.pending = Append(@, Entry(PageNumber(i), i))]
                  ELSE archive
    /\ res' = IF handler = "v2" /\ n = 1
              THEN Send(res, "image", <<Entry(1, i)>>)
              ELSE res
    /\ UNCHANGED <<handler, uploaded, n, cpus, statusCode, pdfium,
                   disconnected, mimetype, clock, peer, doc, imageDims,
                   pageBoxes, stamped, jsonBody, options, format, dpi,
                   scale, filePath, pdfPages, pageNum, imageFiles, disk,
                   err>>

\* Job i rejects: Promise.all rejects with the first rejection it sees, and
\* the handler's await throws into its catch block.
JobFail(i) ==
    /\ EventLoopFree
    /\ i \in DOMAIN job
    /\ job[i] \in {"running", "doomed"}
    /\ job' = Admit([job EXCEPT ![i] = "failed"], Limit(handler, cpus), disk, handler)
    /\ pc' = IF pc = "await" THEN "catch" ELSE pc
    /\ err' = IF pc = "await" THEN Error("page", i) ELSE err
    /\ overtaken' = (overtaken \/ Overtakes(i))
    /\ UNCHANGED <<handler, uploaded, n, cpus, statusCode, pdfium,
                   disconnected, mimetype, encoded, clock, peer, doc,
                   imageDims, pageBoxes, stamped, jsonBody, options, format,
                   dpi, scale, filePath, values, pdfPages, pageNum,
                   imageFiles, archive, res, disk>>

----------------------------------------------------------------------------
(* The archiver *)

\* The archiver writes the next appended entry to the response it is piped
\* to; the first write sends the response headers.
ArchiveFlush ==
    /\ EventLoopFree
    /\ archive.piped
    /\ archive.pending # <<>>
    /\ ~res.ended
    /\ res' = [res EXCEPT !.status = 200, !.headersSent = TRUE, !.ctype = "zip",
                          !.body = Append(@, Head(archive.pending))]
    /\ archive' = [archive EXCEPT !.pending = Tail(@)]
    /\ UNCHANGED <<handler, uploaded, n, cpus, statusCode, pdfium,
                   disconnected, mimetype, encoded, clock, peer, doc,
                   imageDims, pageBoxes, stamped, jsonBody, options, format,
                   dpi, scale, overtaken, pc, filePath, job, values,
                   pdfPages, pageNum, imageFiles, disk, err>>

\* await archive.finalize() rejects
FinalizeFail ==
    /\ pc = "finalize"
    /\ pc' = "catch"
    /\ err' = Error("archive", 0)
    /\ UNCHANGED <<handler, uploaded, n, cpus, statusCode, pdfium,
                   disconnected, mimetype, encoded, clock, peer, doc,
                   imageDims, pageBoxes, stamped, jsonBody, options, format,
                   dpi, scale, overtaken, filePath, job, values, pdfPages,
                   pageNum, imageFiles, archive, res, disk>>

----------------------------------------------------------------------------
(* POST /pdf/image-to-pdf *)

ImgStart ==
    /\ handler = "img"
    /\ pc = "start"
    /\ IF n = 0
       THEN /\ res' = Json(res, 400)
            /\ jsonBody' = JsonBody(res, jsonBody, BadRequestBody)
            /\ statusCode' = 400
            /\ pc' = "done"
            /\ UNCHANGED <<job, values>>
       ELSE /\ job' = Dispatch(n, ImagesLimit)
            /\ values' = [i \in 1..n |-> 0]
            /\ pc' = "await"
            /\ UNCHANGED <<res, jsonBody, statusCode>>
    /\ UNCHANGED <<handler, uploaded, n, cpus, pdfium, disconnected,
                   mimetype, encoded, clock, peer, doc, imageDims,
                   pageBoxes, stamped, options, format, dpi, scale,
                   overtaken, filePath, pdfPages, pageNum, imageFiles,
                   archive, disk, err>>

\* for (const image of embeddedImages) { pdfDoc.addPage(...); page.drawImage(...) },
\* then await addEndlessForgeMetadata(pdfDoc)
ImgAddPages ==
    /\ handler = "img"
    /\ pc = "collected"
    /\ pdfPages' = [k \in 1..Len(values) |-> Entry(k, values[k])]
    /\ pageBoxes' = [k \in 1..Len(values) |->
                        addPage(imageDims[values[k]], imageDims[values[1]])]
    /\ \E ok \in BOOLEAN :
          IF ok THEN pc' = "save" /\ stamped' = TRUE /\ UNCHANGED err
          ELSE pc' = "catch" /\ err' = Error("metadata", 0) /\ UNCHANGED stamped
    /\ UNCHANGED imageDims
    /\ UNCHANGED <<handler, uploaded, n, cpus, statusCode, pdfium,
                   disconnected, mimetype, encoded, clock, peer, doc,
                   jsonBody, options, format, dpi, scale, overtaken,
                   filePath, job, values, pageNum, imageFiles, archive, res,
                   disk>>

\* await pdfDoc.save(); cleanupFiles(req.files); res.send(...)
ImgSave ==
    /\ handler = "img"
    /\ pc = "save"
    /\ \E ok \in BOOLEAN :
          IF ok
          THEN /\ disk' = cleanupFiles(disk, Uploads(n))
               /\ res' = Send(res, "pdf", pdfPages)
               /\ pc' = "done"
               /\ UNCHANGED err
          ELSE /\ pc' = "catch"
               /\ err' = Error("save", 0)
               /\ UNCHANGED <<disk, res>>
    /\ UNCHANGED <<handler, uploaded, n, cpus, statusCode, pdfium,
                   disconnected, mimetype, encoded, clock, peer, doc,
                   imageDims, pageBoxes, stamped, jsonBody, options, format,
                   dpi, scale, overtaken, filePath, job, values, pdfPages,
                   pageNum, imageFiles, archive>>

\* catch (err) { cleanupFiles(req.files); res.status(500).json(...) }
ImgCatch ==
    /\ handler = "img"
    /\ pc = "catch"
    /\ disk' = cleanupFiles(disk, Uploads(n))
    /\ res' = Json(res, 500)
    /\ jsonBody' = JsonBody(res, jsonBody, ShortErrorBody)
    /\ statusCode' = 500
    /\ pc' = "done"
    /\ UNCHANGED <<handler, uploaded, n, cpus, pdfium, disconnected,
                   mimetype, encoded, clock, peer, doc, imageDims,
                   pageBoxes, stamped, options, format, dpi, scale,
                   overtaken, filePath, job, values, pdfPages, pageNum,
                   imageFiles, archive, err>>

----------------------------------------------------------------------------
(* POST /pdf/pdf-to-image, pooled renderer (pdf2pic) *)

\* finally { if (fs.existsSync(outputDir)) fs.rmSync(outputDir, ...) }
PooledFinally(d) == rmOutput(d)

\* The synchronous head of the handler: the 400 return, or filePath,
\* readFileSync, cleanupFiles(req.file), mkdirSync, fromBuffer.
PooledStart ==
    /\ handler = "pooled"
    /\ pc = "start"
    /\ IF ~uploaded
       THEN /\ res' = Json(res, 400)
            /\ jsonBody' = JsonBody(res, jsonBody, BadRequestBody)
            /\ statusCode' = 400
            /\ disk' = PooledFinally(disk)
            /\ pc' = "done"
            /\ UNCHANGED <<filePath, err, options>>
       ELSE /\ filePath' = TRUE
            /\ UNCHANGED <<res, jsonBody, statusCode>>
            /\ \E ok \in BOOLEAN :
                  IF ok
                  THEN /\ disk' = mkdirOutput(cleanupFiles(disk, {UploadPath(1)}))
                       /\ options' = PooledOptions(format, dpi)
                       /\ pc' = "load"
                       /\ UNCHANGED err
                  ELSE /\ pc' = "catch"
                       /\ err' = Error("read", 0)
                       /\ UNCHANGED <<disk, options>>
    /\ UNCHANGED <<handler, uploaded, n, cpus, pdfium, disconnected,
                   mimetype, encoded, clock, peer, doc, imageDims,
                   pageBoxes, stamped, format, dpi, scale, overtaken, job,
                   values, pdfPages, pageNum, imageFiles, archive>>

\* await PDFDocument.load(pdfBuffer); getPageCount(); tasks = pageIndices.map(...)
PooledLoad ==
    /\ handler = "pooled"
    /\ pc = "load"
    /\ \E ok \in BOOLEAN :
          IF ok
          THEN /\ job' = Dispatch(n, PagesLimit)
               /\ values' = [i \in 1..n |-> 0]
               /\ pc' = IF n = 0 THEN "collected" ELSE "await"
               /\ UNCHANGED err
          ELSE /\ pc' = "catch"
               /\ err' = Error("load", 0)
               /\ UNCHANGED <<job, values>>
    /\ UNCHANGED <<handler, uploaded, n, cpus, statusCode, pdfium,
                   disconnected, mimetype, encoded, clock, peer, doc,
                   imageDims, pageBoxes, stamped, jsonBody, options, format,
                   dpi, scale, overtaken, filePath, pdfPages, pageNum,
                   imageFiles, archive, res, disk>>

\* results = await Promise.all(tasks); one image is sent, any other number of
\* results goes to the archive
PooledRespond ==
    /\ handler = "pooled"
    /\ pc = "collected"
    /\ IF Len(values) = 1
       THEN /\ res' = Send(res, "image", <<Entry(1, values[1])>>)
            /\ disk' = PooledFinally(disk)
            /\ pc' = "done"
            /\ UNCHANGED archive
       ELSE /\ archive' = [piped |-> TRUE,
                           pending |-> [k \in 1..Len(values) |-> Entry(k, values[k])]]
            /\ pc' = "finalize"
            /\ UNCHANGED <<res, disk>>
    /\ UNCHANGED <<handler, uploaded, n, cpus, statusCode, pdfium,
                   disconnected, mimetype, encoded, clock, peer, doc,
                   imageDims, pageBoxes, stamped, jsonBody, options, format,
                   dpi, scale, overtaken, filePath, job, values, pdfPages,
                   pageNum, imageFiles, err>>

\* catch { if (filePath) cleanupFiles({path: filePath}); res.status(500).json }
\* followed by the finally block
PooledCatch ==
    /\ handler = "pooled"
    /\ pc = "catch"
    /\ disk' = PooledFinally(IF filePath THEN cleanupFiles(disk, {UploadPath(1)})
                             ELSE disk)
    /\ res' = Json(res, 500)
    /\ jsonBody' = JsonBody(res, jsonBody, ShortErrorBody)
    /\ statusCode' = 500
    /\ pc' = "done"
    /\ UNCHANGED <<handler, uploaded, n, cpus, pdfium, disconnected,
                   mimetype, encoded, clock, peer, doc, imageDims,
                   pageBoxes, stamped, options, format, dpi, scale,
                   overtaken, filePath, job, values, pdfPages, pageNum,
                   imageFiles, archive, err>>

----------------------------------------------------------------------------
(* POST /pdf/v1/pdf-to-image, sequential renderer (pdf-to-img) *)

\* finally { if (uploadedFilePath) cleanupFiles(uploadedFilePath);
\*           if (fs.existsSync(outputDir)) fs.rmSync(outputDir, ...) }
V1Finally(d, fp) == rmOutput(IF fp THEN cleanupFiles(d, {UploadPath(1)}) ELSE d)

V1Start ==
    /\ handler = "v1"
    /\ pc = "start"
    /\ IF ~uploaded
       THEN /\ res' = Json(res, 400)
            /\ jsonBody' = JsonBody(res, jsonBody, BadRequestBody)
            /\ statusCode' = 400
            /\ disk' = V1Finally(disk, filePath)
            /\ pc' = "done"
            /\ UNCHANGED <<filePath, options>>
       ELSE /\ filePath' = TRUE
            /\ disk' = mkdirOutput(disk)
            /\ options' = V1Options(format, dpi)
            /\ pc' = "load"
            /\ UNCHANGED <<res, jsonBody, statusCode>>
    /\ UNCHANGED <<handler, uploaded, n, cpus, pdfium, disconnected,
                   mimetype, encoded, clock, peer, doc, imageDims,
                   pageBoxes, stamped, format, dpi, scale, overtaken, job,
                   values, pdfPages, pageNum, imageFiles, archive, err>>

\* const doc = await pdf(uploadedFilePath, { scale })
V1Load ==
    /\ handler = "v1"
    /\ pc = "load"
    /\ \E ok \in BOOLEAN :
          IF ok THEN pc' = "loop" /\ UNCHANGED err
          ELSE pc' = "catch" /\ err' = Error("load", 0)
    /\ UNCHANGED <<handler, uploaded, n, cpus, statusCode, pdfium,
                   disconnected, mimetype, encoded, clock, peer, doc,
                   imageDims, pageBoxes, stamped, jsonBody, options, format,
                   dpi, scale, overtaken, filePath, job, values, pdfPages,
                   pageNum, imageFiles, archive, res, disk>>

\* One iteration of for await (const buffer of doc): render, writeFile, push
V1Page ==
    /\ handler = "v1"
    /\ pc = "loop"
    /\ pageNum <= n
    /\ \E ok \in BOOLEAN :
          IF ok /\ OutputDir \in disk
          THEN /\ disk' = disk \cup {OutFile(pageNum)}
               /\ imageFiles' = Append(imageFiles, pageNum)
               /\ pageNum' = pageNum + 1
               /\ UNCHANGED <<pc, err>>
          ELSE /\ pc' = "catch"
               /\ err' = Error("page", pageNum)
               /\ UNCHANGED <<disk, imageFiles, pageNum>>
    /\ UNCHANGED <<handler, uploaded, n, cpus, statusCode, pdfium,
                   disconnected, mimetype, encoded, clock, peer, doc,
                   imageDims, pageBoxes, stamped, jsonBody, options, format,
                   dpi, scale, overtaken, filePath, job, values, pdfPages,
                   archive, res>>

\* After the loop: no image throws, one image is read and sent (the return
\* runs the finally block), several go to the archive by archive.file
V1Respond ==
    /\ handler = "v1"
    /\ pc = "loop"
    /\ pageNum > n
    /\ IF Len(imageFiles) = 0
       THEN /\ pc' = "catch"
            /\ err' = Error("nopages", 0)
            /\ UNCHANGED <<res, disk, archive>>
       ELSE IF Len(imageFiles) = 1
       THEN /\ res' = Send(res, "image", <<Entry(1, imageFiles[1])>>)
            /\ disk' = V1Finally(disk, filePath)
            /\ pc' = "done"
            /\ UNCHANGED <<archive, err>>
       ELSE /\ archive' = [piped |-> TRUE,
                           pending |-> [k \in 1..Len(imageFiles) |->
                                           Entry(imageFiles[k], imageFiles[k])]]
            /\ pc' = "finalize"
            /\ UNCHANGED <<res, disk, err>>
    /\ UNCHANGED <<handler, uploaded, n, cpus, statusCode, pdfium,
                   disconnected, mimetype, encoded, clock, peer, doc,
                   imageDims, pageBoxes, stamped, jsonBody, options, format,
                   dpi, scale, overtaken, filePath, job, values, pdfPages,
                   pageNum, imageFiles>>

\* catch { res.status(500).json(...) } followed by the finally block
V1Catch ==
    /\ handler = "v1"
    /\ pc = "catch"
    /\ res' = Json(res, 500)
    /\ jsonBody' = JsonBody(res, jsonBody, DetailedErrorBody)
    /\ statusCode' = 500
    /\ disk' = V1Finally(disk, filePath)
    /\ pc' = "done"
    /\ UNCHANGED <<handler, uploaded, n, cpus, pdfium, disconnected,
                   mimetype, encoded, clock, peer, doc, imageDims,
                   pageBoxes, stamped, options, format, dpi, scale,
                   overtaken, filePath, job, values, pdfPages, pageNum,
                   imageFiles, archive, err>>

----------------------------------------------------------------------------
(* POST /pdf/pdf-to-image, directory-scanning variant (part_001) *)

RECURSIVE SortNumerically(_)
\* imageFiles.sort((a, b) => numA - numB) over the page numbers of the names
SortNumerically(S) ==
    IF S = {} THEN <<>> ELSE <<Min(S)>> \o SortNumerically(S \ {Min(S)})

\* fs.promises.readdir(outputDir) filtered to the image files
ReadDir(d) == {p.k : p \in {q \in d : q.kind = "out"}}

ScanStart ==
    /\ handler = "scan"
    /\ pc = "start"
    /\ IF ~uploaded
       THEN /\ res' = Json(res, 400)
            /\ jsonBody' = JsonBody(res, jsonBody, BadRequestBody)
            /\ statusCode' = 400
            /\ disk' = V1Finally(disk, filePath)
            /\ pc' = "done"
            /\ UNCHANGED <<filePath, options>>
       ELSE /\ filePath' = TRUE
            /\ disk' = mkdirOutput(disk)
            /\ options' = ScanOptions(format, dpi)
            /\ pc' = "loop"
            /\ UNCHANGED <<res, jsonBody, statusCode>>
    /\ UNCHANGED <<handler, uploaded, n, cpus, pdfium, disconnected,
                   mimetype, encoded, clock, peer, doc, imageDims,
                   pageBoxes, stamped, format, dpi, scale, overtaken, job,
                   values, pdfPages, pageNum, imageFiles, archive, err>>

\* One iteration of for await (const data of converter): the converter writes
\* the next page image into outputDir, or throws
ScanPage ==
    /\ handler = "scan"
    /\ pc = "loop"
    /\ pageNum <= n
    /\ \E ok \in BOOLEAN :
          IF ok /\ OutputDir \in disk
          THEN /\ disk' = disk \cup {OutFile(pageNum)}
               /\ pageNum' = pageNum + 1
               /\ UNCHANGED <<pc, err>>
          ELSE /\ pc' = "catch"
               /\ err' = Error("page", pageNum)
               /\ UNCHANGED <<disk, pageNum>>
    /\ UNCHANGED <<handler, uploaded, n, cpus, statusCode, pdfium,
                   disconnected, mimetype, encoded, clock, peer, doc,
                   imageDims, pageBoxes, stamped, jsonBody, options, format,
                   dpi, scale, overtaken, filePath, job, values, pdfPages,
                   imageFiles, archive, res>>

\* readdir, filter, sort; then as in v1, with entries renamed by position
ScanRespond ==
    /\ handler = "scan"
    /\ pc = "loop"
    /\ pageNum > n
    /\ LET files == SortNumerically(ReadDir(disk))
       IN /\ imageFiles' = files
          /\ IF Len(files) = 0
             THEN /\ pc' = "catch"
                  /\ err' = Error("nopages", 0)
                  /\ UNCHANGED <<res, disk, archive>>
             ELSE IF Len(files) = 1
             THEN /\ res' = Send(res, "image", <<Entry(1, files[1])>>)
                  /\ disk' = V1Finally(disk, filePath)
                  /\ pc' = "done"
                  /\ UNCHANGED <<archive, err>>
             ELSE /\ archive' = [piped |-> TRUE,
                                 pending |-> [k \in 1..Len(files) |-> Entry(k, files[k])]]
                  /\ pc' = "finalize"
                  /\ UNCHANGED <<res, disk, err>>
    /\ UNCHANGED <<handler, uploaded, n, cpus, statusCode, pdfium,
                   disconnected, mimetype, encoded, clock, peer, doc,
                   imageDims, pageBoxes, stamped, jsonBody, options, format,
                   dpi, scale, overtaken, filePath, job, values, pdfPages,
                   pageNum>>

ScanCatch ==
    /\ handler = "scan"
    /\ pc = "catch"
    /\ res' = Json(res, 500)
    /\ jsonBody' = JsonBody(res, jsonBody, DetailedErrorBody)
    /\ statusCode' = 500
    /\ disk' = V1Finally(disk, filePath)
    /\ pc' = "done"
    /\ UNCHANGED <<handler, uploaded, n, cpus, pdfium, disconnected,
                   mimetype, encoded, clock, peer, doc, imageDims,
                   pageBoxes, stamped, options, format, dpi, scale,
                   overtaken, filePath, job, values, pdfPages, pageNum,
                   imageFiles, archive, err>>

----------------------------------------------------------------------------
(* POST /pdf/v2/pdf-to-image/, PDFium renderer *)

V2Start ==
    /\ handler = "v2"
    /\ pc = "start"
    /\ IF ~uploaded
       THEN /\ res' = Json(res, 400)
            /\ jsonBody' = JsonBody(res, jsonBody, BadRequestBody)
            /\ statusCode' = 400
            /\ pc' = "done"
            /\ UNCHANGED options
       ELSE /\ pc' = "load"
            /\ options' = V2Options(format, scale, dpi)
            /\ UNCHANGED <<res, jsonBody, statusCode>>
    /\ UNCHANGED <<handler, uploaded, n, cpus, pdfium, disconnected,
                   mimetype, encoded, clock, peer, doc, imageDims,
                   pageBoxes, stamped, format, dpi, scale, overtaken,
                   filePath, job, values, pdfPages, pageNum, imageFiles,
                   archive, disk, err>>

\* await readFile; await pdfium.loadDocument; pages = [...doc.pages()];
\* the zip headers are set and the archive piped before any page is rendered
V2Load ==
    /\ handler = "v2"
    /\ pc = "load"
    /\ \E ok \in BOOLEAN :
          IF ~ok
          THEN /\ pc' = "catch"
               /\ err' = Error("load", 0)
               /\ UNCHANGED <<job, values, archive, doc>>
          ELSE IF pdfium = "null"
          THEN /\ pc' = "catch"
               /\ err' = Error("handle", 0)
               /\ UNCHANGED <<job, values, archive, doc>>
          ELSE IF n = 0
          THEN /\ pc' = "catch"
               /\ err' = Error("nopages", 0)
               /\ doc' = "loaded"
               /\ UNCHANGED <<job, values, archive>>
          ELSE /\ archive' = [piped |-> n > 1, pending |-> <<>>]
               /\ doc' = "loaded"
               /\ job' = Dispatch(n, Concurrency(cpus))
               /\ values' = [i \in 1..n |-> 0]
               /\ pc' = "await"
               /\ UNCHANGED err
    /\ UNCHANGED <<handler, uploaded, n, cpus, statusCode, pdfium,
                   disconnected, mimetype, encoded, clock, peer, imageDims,
                   pageBoxes, stamped, jsonBody, options, format, dpi,
                   scale, overtaken, filePath, pdfPages, pageNum,
                   imageFiles, res, disk>>

\* await Promise.all(tasks) returned; if (multiple) await archive.finalize()
V2Collected ==
    /\ handler = "v2"
    /\ pc = "collected"
    /\ pc' = IF n > 1 THEN "finalize" ELSE "unlink"
    /\ UNCHANGED <<handler, uploaded, n, cpus, statusCode, pdfium,
                   disconnected, mimetype, encoded, clock, peer, doc,
                   imageDims, pageBoxes, stamped, jsonBody, options, format,
                   dpi, scale, overtaken, filePath, job, values, pdfPages,
                   pageNum, imageFiles, archive, res, disk, err>>

\* await fs.promises.unlink(req.file.path); doc.destroy()
V2Unlink ==
    /\ handler = "v2"
    /\ pc = "unlink"
    /\ \E ok \in BOOLEAN :
          IF ok
          THEN /\ disk' = disk \ {UploadPath(1)}
               /\ doc' = "destroyed"
               /\ pc' = "done"
               /\ UNCHANGED err
          ELSE /\ pc' = "catch"
               /\ err' = Error("unlink", 0)
               /\ UNCHANGED <<disk, doc>>
    /\ UNCHANGED <<handler, uploaded, n, cpus, statusCode, pdfium,
                   disconnected, mimetype, encoded, clock, peer, imageDims,
                   pageBoxes, stamped, jsonBody, options, format, dpi,
                   scale, overtaken, filePath, job, values, pdfPages,
                   pageNum, imageFiles, archive, res>>

\* catch { if (!res.headersSent) res.status(500).json(...) else res.end() }
V2Catch ==
    /\ handler = "v2"
    /\ pc = "catch"
    /\ res' = IF ~res.headersSent THEN Json(res, 500) ELSE [res EXCEPT !.ended = TRUE]
    /\ jsonBody' = JsonBody(res, jsonBody, DetailedErrorBody)
    /\ statusCode' = IF ~res.headersSent THEN 500 ELSE statusCode
    /\ pc' = "done"
    /\ UNCHANGED <<handler, uploaded, n, cpus, pdfium, disconnected,
                   mimetype, encoded, clock, peer, doc, imageDims,
                   pageBoxes, stamped, options, format, dpi, scale,
                   overtaken, filePath, job, values, pdfPages, pageNum,
                   imageFiles, archive, disk, err>>

----------------------------------------------------------------------------
\* await archive.finalize() resolves once every entry is written: the archive
\* ends the response it is piped to, and the handler goes on to its end.
FinalizeOk ==
    /\ pc = "finalize"
    /\ archive.pending = <<>>
    /\ res' = [res EXCEPT !.status = 200, !.headersSent = TRUE, !.ctype = "zip",
                          !.ended = TRUE]
    /\ disk' = CASE handler = "pooled" -> PooledFinally(disk)
                 [] handler \in {"v1", "scan"} -> V1Finally(disk, filePath)
                 [] OTHER -> disk
    /\ pc' = IF handler = "v2" THEN "unlink" ELSE "done"
    /\ UNCHANGED <<handler, uploaded, n, cpus, statusCode, pdfium,
                   disconnected, mimetype, encoded, clock, peer, doc,
                   imageDims, pageBoxes, stamped, jsonBody, options, format,
                   dpi, scale, overtaken, filePath, job, values, pdfPages,
                   pageNum, imageFiles, archive, err>>

----------------------------------------------------------------------------
(* A second request served by the same process *)

\* path.join(TEMP_DIR, "conversion_" + Date.now()) of a handler invoked at
\* time t: the directory of the first request when t is its millisecond
outputDirAt(t) == IF t = RequestTime THEN OutputDir ELSE [kind |-> "peerdir", k |-> t]

\* if (fs.existsSync(outputDir)) fs.rmSync(outputDir, { recursive: true, force: true })
rmOutputAt(d, t) == IF outputDirAt(t) = OutputDir THEN rmOutput(d) ELSE d \ {outputDirAt(t)}

\* The clock moves on to the next millisecond
Tick ==
    /\ EventLoopFree
    /\ pc # "start"
    /\ clock < MaxClock
    /\ clock' = clock + 1
    /\ UNCHANGED <<handler, uploaded, n, cpus, statusCode, pdfium,
                   disconnected, mimetype, encoded, peer, doc, imageDims,
                   pageBoxes, stamped, jsonBody, options, format, dpi,
                   scale, overtaken, pc, filePath, job, values, pdfPages,
                   pageNum, imageFiles, archive, res, disk, err>>

\* The second handler is invoked: outputDir is named after Date.now(); without
\* a file it returns 400 through its finally block, with one it creates
\* outputDir
PeerStart ==
    /\ EventLoopFree
    /\ peer.pc = "idle"
    /\ \E hasFile \in BOOLEAN :
          IF hasFile
          THEN /\ peer' = [pc |-> "active", id |-> clock]
               /\ disk' = disk \cup {outputDirAt(clock)}
          ELSE /\ peer' = [pc |-> "done", id |-> clock]
               /\ disk' = rmOutputAt(disk, clock)
    /\ UNCHANGED <<handler, uploaded, n, cpus, statusCode, pdfium,
                   disconnected, mimetype, encoded, clock, doc, imageDims,
                   pageBoxes, stamped, jsonBody, options, format, dpi,
                   scale, overtaken, pc, filePath, job, values, pdfPages,
                   pageNum, imageFiles, archive, res, err>>

\* The second handler reaches its finally block
PeerFinish ==
    /\ EventLoopFree
    /\ peer.pc = "active"
    /\ peer' = [peer EXCEPT !.pc = "done"]
    /\ disk' = rmOutputAt(disk, peer.id)
    /\ UNCHANGED <<handler, uploaded, n, cpus, statusCode, pdfium,
                   disconnected, mimetype, encoded, clock, doc, imageDims,
                   pageBoxes, stamped, jsonBody, options, format, dpi,
                   scale, overtaken, pc, filePath, job, values, pdfPages,
                   pageNum, imageFiles, archive, res, err>>

----------------------------------------------------------------------------
(* Module start *)

\* (async () => { pdfium = await PDFiumLibrary.init(); })() resolves
PdfiumInit ==
    /\ EventLoopFree
    /\ pdfium = "null"
    /\ pdfium' = "ready"
    /\ UNCHANGED <<handler, uploaded, n, cpus, statusCode, disconnected,
                   mimetype, encoded, clock, peer, doc, imageDims,
                   pageBoxes, stamped, jsonBody, options, format, dpi,
                   scale, overtaken, pc, filePath, job, values, pdfPages,
                   pageNum, imageFiles, archive, res, disk, err>>

----------------------------------------------------------------------------
(* The client *)

\* The client closes the connection before the response has ended. No
\* handler listens for req "close" / "aborted", and nothing is handed to the
\* limit(...) functions that could tell them: only the flag changes.
ClientDisconnect ==
    /\ EventLoopFree
    /\ ~disconnected
    /\ ~res.ended
    /\ disconnected' = TRUE
    /\ UNCHANGED <<handler, uploaded, n, cpus, statusCode, pdfium, mimetype,
                   encoded, clock, peer, doc, imageDims, pageBoxes, stamped,
                   jsonBody, options, format, dpi, scale, overtaken, pc,
                   filePath, job, values, pdfPages, pageNum, imageFiles,
                   archive, res, disk, err>>

----------------------------------------------------------------------------
Next ==
    \/ \E i \in 1..MaxImages : JobOk(i)
    \/ \E i \in 1..MaxImages : JobFail(i)
    \/ ArchiveFlush
    \/ FinalizeOk
    \/ FinalizeFail
    \/ ImgStart
    \/ ImgAddPages
    \/ ImgSave
    \/ ImgCatch
    \/ PooledStart
    \/ PooledLoad
    \/ PooledRespond
    \/ PooledCatch
    \/ V1Start
    \/ V1Load
    \/ V1Page
    \/ V1Respond
    \/ V1Catch
    \/ ScanStart
    \/ ScanPage
    \/ ScanRespond
    \/ ScanCatch
    \/ V2Start
    \/ V2Load
    \/ V2Collected
    \/ V2Unlink
    \/ V2Catch

Spec == Init /\ [][Next]_vars

\* The part of each document handler that reads the request fields
NextFields ==
    \/ PooledStart
    \/ V1Start
    \/ ScanStart
    \/ V2Start

SpecFields == InitFields /\ [][NextFields]_vars

\* The images handler alone
NextKinds ==
    \/ \E i \in 1..MaxKinds : JobOk(i)
    \/ \E i \in 1..MaxKinds : JobFail(i)
    \/ ImgStart
    \/ ImgAddPages
    \/ ImgSave
    \/ ImgCatch

SpecKinds == InitKinds /\ [][NextKinds]_vars

\* The pooled document handlers and their client
NextCancel ==
    \/ \E i \in 1..MaxPages : JobOk(i)
    \/ \E i \in 1..MaxPages : JobFail(i)
    \/ ArchiveFlush
    \/ FinalizeOk
    \/ FinalizeFail
    \/ PooledStart
    \/ PooledLoad
    \/ PooledRespond
    \/ PooledCatch
    \/ V2Start
    \/ V2Load
    \/ V2Collected
    \/ V2Unlink
    \/ V2Catch
    \/ ClientDisconnect

SpecCancel == InitCancel /\ [][NextCancel]_vars

\* The PDFium handler from the moment the server listens
NextStartup ==
    \/ \E i \in 1..MaxPages : JobOk(i)
    \/ \E i \in 1..MaxPages : JobFail(i)
    \/ ArchiveFlush
    \/ FinalizeOk
    \/ FinalizeFail
    \/ V2Start
    \/ V2Load
    \/ V2Collected
    \/ V2Unlink
    \/ V2Catch
    \/ PdfiumInit

SpecStartup == InitStartup /\ [][NextStartup]_vars

\* Two overlapping requests of a handler that names an output directory
NextTwo ==
    \/ \E i \in 1..MaxPages : JobOk(i)
    \/ \E i \in 1..MaxPages : JobFail(i)
    \/ ArchiveFlush
    \/ FinalizeOk
    \/ FinalizeFail
    \/ PooledStart
    \/ PooledLoad
    \/ PooledRespond
    \/ PooledCatch
    \/ V1Start
    \/ V1Load
    \/ V1Page
    \/ V1Respond
    \/ V1Catch
    \/ ScanStart
    \/ ScanPage
    \/ ScanRespond
    \/ ScanCatch
    \/ Tick
    \/ PeerStart
    \/ PeerFinish

SpecTwo == InitTwo /\ [][NextTwo]_vars

----------------------------------------------------------------------------
(* Properties *)

\* The entries handed to the archiver so far, in the order of the calls
Appended == res.body \o archive.pending

InOrder(cnt) == [k \in 1..cnt |-> Entry(k, k)]

\* Every page of the request has been produced
PagesDone ==
    IF handler \in {"pooled", "v2"}
    THEN DOMAIN job = 1..n /\ AllOk(job)
    ELSE pageNum > n

\* C1: images-to-document: page k of the document is built from the k-th
\* uploaded image, whatever the order in which the embed jobs completed.
C1_DocumentPageOrder ==
    handler = "img" =>
        /\ pdfPages # <<>> => pdfPages = InOrder(n)
        /\ res.status = 200 => res.body = InOrder(n)

C1_Witness ==
    /\ handler = "img"
    /\ n >= 3
    /\ overtaken
    /\ res.status = 200
    /\ res.ctype = "pdf"

\* C2: pooled document-to-images: for N >= 2 pages the archive receives exactly
\* N entries and the i-th entry appended is the image of page i.
C2_PooledArchiveOrder ==
    (handler = "pooled" /\ n >= 2 /\ archive.piped) => Appended = InOrder(n)

C2_Witness ==
    /\ handler = "pooled"
    /\ n >= 3
    /\ overtaken
    /\ res.status = 200
    /\ res.ended
    /\ Len(res.body) = n

\* C3: PDFium document-to-images: the entries are appended to the archive in
\* ascending page index order, whatever the order in which the jobs completed.
C3_V2ArchiveAscending ==
    handler = "v2" =>
        \A a, b \in 1..Len(Appended) : a < b => Appended[a].src < Appended[b].src

\* C4: no header or body byte of the image or the archive is written before
\* every page job has completed successfully, and a request with a failed
\* page job is answered with the error object alone.
C4_NoPartialOutput ==
    handler \in DocHandlers =>
        /\ (res.headersSent /\ res.ctype \in {"image", "zip"}) => PagesDone
        /\ (pc = "done" /\ err.kind = "page") =>
               (res.ctype = "json" /\ res.body = <<>>)

\* C5: in the handlers with an output directory, once the handler has finished
\* a request that uploaded a PDF, neither the output directory (nor a file in
\* it) nor the uploaded PDF exists on disk.
C5_DirCleanup ==
    (handler \in DirHandlers /\ uploaded /\ pc = "done") =>
        /\ OutputDir \notin disk
        /\ UploadPath(1) \notin disk
        /\ \A p \in disk : p.kind # "out"

C5_Witness ==
    /\ handler = "v1"
    /\ pc = "done"
    /\ err.kind = "page"
    /\ err.index >= 2
    /\ res.status = 500

\* C6: images-to-document: once the response has been sent, every uploaded
\* image of the request has been deleted, also while jobs are still in flight.
C6_ImgCleanup ==
    (handler = "img" /\ n >= 1 /\ res.ended) => disk \cap Uploads(n) = {}

C6_Witness ==
    /\ handler = "img"
    /\ n >= 2
    /\ res.status = 500
    /\ err.kind = "page"
    /\ Running(job) # {}
    /\ Queued(job) # {}

\* C7: when several page jobs fail, the failure reported is that of the
\* lowest-index failed job, whatever the order in which the jobs completed.
C7_LowestIndexFailureReported ==
    (handler = "pooled" /\ pc = "done" /\ err.kind = "page"
        /\ Settled(job) = DOMAIN job) =>
        err.index = Min({i \in DOMAIN job : job[i] = "failed"})

\* C8: the number of page jobs started and not yet finished never exceeds the
\* limit of the request's pool, also after jobs have failed.
C8_ConcurrencyCeiling ==
    Cardinality(Running(job)) <= Limit(handler, cpus)

C8_Witness ==
    /\ handler = "img"
    /\ Cardinality(Running(job)) = ImagesLimit
    /\ \E i \in DOMAIN job : job[i] = "failed"

\* C9: a 200 response of a document-to-images handler is a single image when
\* the document has one page and a zip archive when it has two or more; no
\* other page count is answered with 200.
C9_Cardinality ==
    (handler \in DocHandlers /\ res.status = 200) =>
        \/ n = 1 /\ res.ctype = "image"
        \/ n >= 2 /\ res.ctype = "zip"

\* C10: a loadable document with 0 pages is answered with status 400, never
\* with 500 and never with 200 and an empty archive.
C10_ZeroPagesRejected ==
    (handler \in DocHandlers /\ uploaded /\ n = 0 /\ res.headersSent
        /\ err.kind \notin {"read", "load"}) =>
        res.status = 400


\* C11: for an N-page document (N >= 2) the archive entries are named
\* page_1.<ext> ... page_N.<ext>, the suffix being the 1-based page, with
\* <ext> = jpg for format=jpeg (png for png), in every handler.
C11_ArchiveEntryNames ==
    (handler \in DocHandlers /\ n >= 2 /\ archive.piped
        /\ FormatField(format) \in {"png", "jpeg"}) =>
        \A k \in 1..Len(Appended) :
            FileName(Appended[k]) =
                "page_" \o ToString(Appended[k].src) \o "."
                    \o (IF FormatField(format) = "jpeg" THEN "jpg" ELSE "png")

\* The field the handler reads its resolution from
ResolutionField == IF handler = "v2" /\ scale # <<>> THEN scale ELSE dpi

\* The resolution the handler uses when the field gives none
DefaultResolution ==
    CASE handler = "pooled" -> Num(PooledDefaultDpi, 1)
      [] handler = "v1" -> Num(V1DefaultDpi, V1PointsPerInch)
      [] handler = "scan" -> Num(ScanDefaultDpi, 1)
      [] handler = "v2" -> Num(V2DefaultScale, 1)

\* C13: whatever the resolution field holds, the resolution handed to the
\* renderer is positive, and it is the handler's default when the field is
\* missing, non-numeric, zero or negative.
C13_ResolutionLenient ==
    options # NoOptions =>
        /\ options.resolution.num > 0
        /\ (ParseFloat(ResolutionField).nan \/ ParseFloat(ResolutionField).num <= 0)
               => options.resolution = DefaultResolution

\* C14: a format field outside the enumeration (png, jpeg; jpg as its alias)
\* makes the handler use png for encoding, Content-Type and extension.
C14_FormatFallback ==
    (options # NoOptions /\ FormatField(format) \notin {"png", "jpeg", "jpg"}) =>
        /\ options.encoder = "png"
        /\ options.ext = "png"
        /\ options.mime = "image/png"


\* C12: every pipeline failure, in either direction, is answered with status
\* 500 and a JSON object that has an `error` and a `details` field.
C12_ErrorObjectShape ==
    (pc = "done" /\ err.kind # "none") =>
        /\ res.status = 500
        /\ res.ctype = "json"
        /\ jsonBody = {"error", "details"}


\* C15: the document sent by /pdf/image-to-pdf has one page per uploaded
\* image; page k has the width and height of image k and the image is drawn
\* at (0,0) at its own width and height; the metadata is stamped once all
\* pages are there and before the document is serialized.
C15_PageGeometry ==
    /\ (handler = "img" /\ res.ctype = "pdf") =>
          /\ stamped
          /\ Len(res.body) = n
          /\ Len(pageBoxes) = n
          /\ \A k \in 1..n :
                /\ pageBoxes[k].size = <<imageDims[k].width, imageDims[k].height>>
                /\ pageBoxes[k].draw = [x |-> 0, y |-> 0,
                                        width |-> imageDims[k].width,
                                        height |-> imageDims[k].height]
    /\ stamped => Len(pageBoxes) = n

C15_Witness ==
    /\ handler = "img"
    /\ n >= 2
    /\ imageDims[1] # imageDims[2]
    /\ res.status = 200
    /\ res.ctype = "pdf"
    /\ overtaken


\* C17: when a page job fails, the error response is sent and the cleanup run
\* only after every submitted job has produced its outcome: once the request
\* has responded and cleaned up, no page job of it is running or yet to start.
C17_AbortAfterDrain ==
    (handler \in {"img", "pooled"} /\ pc = "done" /\ err.kind = "page") =>
        /\ Running(job) = {}
        /\ Queued(job) = {}


\* C19: in /pdf/v2/pdf-to-image/ every request that uploaded a PDF ends with
\* the uploaded file deleted and the loaded document destroyed, on every exit
\* path (load failure, no pages, failed render job, failed archiving).
C19_V2InputReleased ==
    (handler = "v2" /\ uploaded /\ pc = "done") =>
        /\ UploadPath(1) \notin disk
        /\ doc # "loaded"


\* C20: every request ends in a terminal state in which its response has been
\* fully ended, also when the failure comes after the archive was piped to
\* the response.
C20_ResponseEnded ==
    pc = "done" => res.ended


\* The request holds its output directory: created, not yet cleaned up
UsesOutputDir ==
    /\ handler \in DirHandlers
    /\ pc \in {"load", "loop", "await", "collected", "finalize"}

\* C18: two document requests that overlap in time, even when they start in
\* the same millisecond, have distinct output directories, and the cleanup of
\* one never removes the directory the other is still using.
C18_ScratchExclusive ==
    /\ (UsesOutputDir /\ peer.pc = "active") => outputDirAt(peer.id) # OutputDir
    /\ peer.pc = "active" => outputDirAt(peer.id) \in disk
    /\ UsesOutputDir => OutputDir \in disk

\* if (!req.files || req.files.length === 0), if (!req.file)
InputMissing == IF handler = "img" THEN n = 0 ELSE ~uploaded

\* C16: a request without its input is answered with status 400, and then no
\* page job is dispatched, no output directory is created, and the handler
\* creates or deletes no file on disk.
C16_MissingInputRejected ==
    [][ (pc = "start" /\ pc' # "start" /\ InputMissing) =>
            /\ res'.status = 400
            /\ pc' = "done"
            /\ job' = <<>>
            /\ disk' = disk ]_vars


\* file.mimetype is image/png or image/jpeg
Recognized(m) == m \in {ImagePng, ImageJpeg}

\* C21: an images request holding an image whose declared kind is neither png
\* nor jpeg is rejected before any page job is dispatched, and such an image
\* never goes through the png or jpeg re-encode and embed path.
C21_ImageKindsValidated ==
    handler = "img" =>
        /\ (\E i \in 1..n : ~Recognized(mimetype[i])) => job = <<>>
        /\ \A i \in 1..n : encoded[i] # "" => Recognized(mimetype[i])


\* C22: once the client has disconnected, the pool admits no further job of
\* the request: a job that is queued stays queued.
C22_NoAdmissionAfterDisconnect ==
    [][ disconnected =>
            \A i \in DOMAIN job : job[i] = "queued" => job'[i] = "queued" ]_vars


\* The step in which the handler, having read the upload, calls
\* pdfium.loadDocument
UsesHandle == pc = "load" /\ pc' # "load" /\ err'.kind # "load"

\* C23: the PDFium handle is initialized once and never reset, and it is
\* initialized whenever a /pdf/v2/pdf-to-image/ request uses it, also right
\* after the server has started to listen.
C23_HandleInitialized ==
    [][ /\ UsesHandle => pdfium = "ready"
        /\ pdfium = "ready" => pdfium' = "ready" ]_vars


\* Jobs whose function has been called
Started(j) == {i \in DOMAIN j : j[i] # "queued"}

\* C24: the page jobs of a request start in ascending index order, whatever
\* the order in which they complete, and a queued job is admitted as soon as
\* a job in flight finishes, by success or by failure: while jobs are queued
\* the pool is full.
C24_AdmissionOrder ==
    handler \in {"img", "pooled", "v2"} =>
        /\ \A i \in Started(job) : \A k \in 1..i : k \in Started(job)
        /\ Queued(job) # {} => Cardinality(Running(job)) = Limit(handler, cpus)

C24_Witness ==
    /\ handler = "pooled"
    /\ overtaken
    /\ \E i \in DOMAIN job : job[i] = "failed"
    /\ \E i \in DOMAIN job : i > PagesLimit /\ job[i] = "running"
    /\ Queued(job) # {}


C26_SingleResponse ==
    (res.headersSent /\ res.status = 200) => statusCode = DefaultStatusCode

====
